---- MODULE Spec2Model ----
(***************************************************************************)
(* Model of the unwatched-item detection pipeline of                       *)
(* servarr_diskspace_analyzer.py (ServarrTautulliAnalyzer) and of its      *)
(* single-mode twin sonarr_plex_analyzer.py (SonarrTautulliAnalyzer).      *)
(*                                                                         *)
(* Titles are sequences of one-character strings, so that lower-casing and *)
(* substring containment are computed and not assumed.                     *)
(*                                                                         *)
(* Seven specifications share the module:                                  *)
(*   SpecMatch   the index build and the title matching decision of        *)
(*               check_tautulli_watch_history, on drawn inputs;            *)
(*   SpecRank    the sort-and-truncate step of get_top_items_by_size;      *)
(*   SpecSection the section selection of check_tautulli_watch_history;    *)
(*   SpecSize    human_readable_size, on base-1024 digits;                 *)
(*   SpecCutoff  the lookback cutoff as each watch coroutine computes it;  *)
(*   Spec        one run of main_async in report mode: inventory, size     *)
(*               fan-out, ranking, watch fan-out, filter, reports, close;  *)
(*   SpecCleanup main_async from the return of get_unwatched_items on, in  *)
(*               either mode: the prompts and deletions of                 *)
(*               interactive_cleanup, or the reports, then close.          *)
(***************************************************************************)
EXTENDS Integers, Sequences, FiniteSets, TLC

VARIABLES
    \* ---- SpecMatch: one evaluation of the matching part of
    \*      check_tautulli_watch_history
    m_pc,            \* "input" -> "indexed" -> "matched"
    m_mode,          \* self.mode
    item_title,      \* the candidate title, as given (not lower-cased)
    m_events,        \* response.data.data of get_history
    watched_items,   \* set of lower-cased subject titles
    watch_counts,    \* lower-cased subject title -> number of plays
    m_order,         \* the order in which the for loop visits watched_items
    m_step,          \* which test returned: exact / title_in_watched / ...
    \* ---- SpecRank: one evaluation of sorted(...)[:limit]
    r_pc,            \* "input" -> "ranked"
    r_items,         \* items with sizeOnDisk attached
    r_limit,         \* limit
    r_top,           \* top_items
    \* ---- Spec: one run of main_async.  What the upstream services hold:
    mode,            \* self.mode
    limit,           \* args.limit
    library,         \* the library manager's items, with their true sizes
    sections,        \* the history service's library sections
    history,         \* the history service's rows after the cutoff
    \* ---- Spec: the run
    pc,              \* where main_async stands
    session,         \* self.session: "None" or "open"
    sessions_created,
    sessions_closed,
    exc,             \* the exception unwinding main_async, or "none"
    exit_code,       \* the process exit status, -1 while running
    requests,        \* how many requests of each kind were issued
    request_sessions, \* which sessions (by order of creation) carried them
    inventory_outcome, \* how the inventory request ended
    items,           \* the inventory as get_items returned it
    size_tasks,      \* the get_item_size coroutines handed to gather
    top_items,       \* the ranked candidates
    watch_tasks,     \* the check_tautulli_watch_history coroutines
    watch_results,   \* what gather returned for them
    unwatched_items, \* the result of get_unwatched_items
    json_report,     \* the unwatched_items list of the JSON file
    html_report,     \* the rows of the HTML table
    \* ---- SpecSection: the section selection of
    \*      check_tautulli_watch_history
    s_pc,            \* "input" -> "selected"
    s_mode,          \* self.mode
    s_sections,      \* what get_tautulli_library_sections returned
    target_section,  \* index of target_section in the list, 0 for None
    \* ---- SpecSize: one evaluation of human_readable_size
    h_pc,            \* "input" -> "formatted"
    size_bytes,      \* the argument, as base-1024 digits, lowest first
    size_human,      \* the returned text, one character per element
    \* ---- SpecCutoff: the starts of the watch coroutines of one run
    clock,           \* the wall clock, in seconds
    ticks,           \* seconds gone by since get_unwatched_items was called
    months,          \* args.months
    candidates,      \* how many watch coroutines gather was given
    cutoff_tasks,    \* per started coroutine: its now and its unix_timestamp
    \* ---- SpecCleanup: main_async from the return of get_unwatched_items on
    tui,             \* args.tui
    delete_files,    \* args.delete_files
    idx,             \* position of the for loop of interactive_cleanup
    cleanup_events,  \* the lines typed at the [y/n] prompt and the DELETE
                     \* requests issued, in the order they happened
    deleted_count,   \* deleted_count
    freed_space      \* freed_space

matchVars == <<m_pc, m_mode, item_title, m_events, watched_items, watch_counts,
               m_order, m_step>>
rankVars == <<r_pc, r_items, r_limit, r_top>>
upstreamVars == <<mode, limit, library, sections, history>>
runVars == <<pc, session, sessions_created, sessions_closed, exc, exit_code,
             requests, request_sessions, inventory_outcome, items, size_tasks,
             top_items, watch_tasks, watch_results,
             unwatched_items, json_report, html_report>>
sectionVars == <<s_pc, s_mode, s_sections, target_section>>
sizeVars == <<h_pc, size_bytes, size_human>>
cutoffVars == <<clock, ticks, months, candidates, cutoff_tasks>>
cleanupVars == <<tui, delete_files, idx, cleanup_events, deleted_count,
                 freed_space>>
auxVars == <<sectionVars, sizeVars, cutoffVars, cleanupVars>>

-----------------------------------------------------------------------------
\* Bounds of the drawn inputs.

\* longest generic candidate title drawn in SpecMatch
MaxLen == 2
\* most playback events in one history response
MaxEvents == 2
\* most items the library manager holds in a run
MaxItems == 2
\* most items of an inventory drawn in SpecRank
MaxRankItems == 3
\* largest absolute value of a limit drawn in SpecRank
MaxLimit == 4
\* most library sections in one get_libraries response drawn in SpecSection
MaxSections == 3
\* most base-1024 digits of a size drawn in SpecSize
MaxDigits == 7
\* most seconds that go by while the watch coroutines start, in SpecCutoff
MaxTicks == 2
\* most lines the operator types at the [y/n] prompts of one run
MaxAnswers == 3

-----------------------------------------------------------------------------
\* Strings.

Min(a, b) == IF a < b THEN a ELSE b
Max(a, b) == IF a > b THEN a ELSE b

\* str.lower() on one character, for the letters that occur in the model
LowerChar(c) ==
    CASE c = "A" -> "a"
      [] c = "B" -> "b"
      [] c = "E" -> "e"
      [] c = "N" -> "n"
      [] c = "O" -> "o"
      [] c = "S" -> "s"
      [] c = "T" -> "t"
      [] c = "U" -> "u"
      [] c = "Y" -> "y"
      [] OTHER -> c

\* str.lower()
Lower(s) == [i \in 1..Len(s) |-> LowerChar(s[i])]

RECURSIVE SkipLoop(_, _, _, _)
SkipLoop(sub, s, i, j) ==
    IF i > Len(sub) THEN TRUE
    ELSE IF j > Len(s) THEN FALSE
    ELSE IF sub[i] = s[j] THEN SkipLoop(sub, s, i + 1, j + 1)
    ELSE SkipLoop(sub, s, i, j + 1)
\* a containment test that does not find the empty string anywhere
IsSubstringOfNonEmpty(sub, s) ==
    /\ sub # <<>>
    /\ \E k \in 0..(Len(s) - Len(sub)) :
          \A i \in 1..Len(sub) : s[k + i] = sub[i]
\* a looser test: the characters of sub occur in s in order, gaps allowed
IsSubsequence(sub, s) == SkipLoop(sub, s, 1, 1)
\* the str `in` operator: sub occurs in s as a contiguous run ("" in s is True)
IsSubstring(sub, s) ==
    \E k \in 0..(Len(s) - Len(sub)) :
        \A i \in 1..Len(sub) : s[k + i] = sub[i]

\* a JSON field that is absent or null: dict.get gives None
Missing == <<"None">>
\* Python truthiness of `item_name`: None and "" are false
Truthy(t) == t # Missing /\ t # <<>>

\* the literals of the special case
Supernatural == <<"S","u","p","e","r","n","a","t","u","r","a","l">>
supernatural == <<"s","u","p","e","r","n","a","t","u","r","a","l">>

Modes == {"sonarr", "radarr"}

-----------------------------------------------------------------------------
\* check_tautulli_watch_history: building the index from the history rows.

EmptyIndex == [watched_items |-> {}, watch_counts |-> [k \in {} |-> 0]]

\* the subject title of one history row
ItemName(m, item) ==
    IF m = "sonarr" THEN item.grandparent_title ELSE item.title

\* a loop body that records the key without counting the plays
AddCountOnce(acc, k) ==
    [watched_items |-> acc.watched_items \cup {k},
     watch_counts |->
        [x \in DOMAIN acc.watch_counts \cup {k} |->
            IF x = k THEN 1 ELSE acc.watch_counts[x]]]

\* one iteration of the loop body
AddCount(acc, k) ==
    [watched_items |-> acc.watched_items \cup {k},
     watch_counts |->
        [x \in DOMAIN acc.watch_counts \cup {k} |->
            (IF x \in DOMAIN acc.watch_counts THEN acc.watch_counts[x] ELSE 0)
            + (IF x = k THEN 1 ELSE 0)]]

RECURSIVE IndexLoop(_, _, _, _)
IndexLoop(m, events, i, acc) ==
    IF i > Len(events) THEN acc
    ELSE LET item_name == ItemName(m, events[i])
         IN  IF Truthy(item_name)
             THEN IndexLoop(m, events, i + 1, AddCount(acc, Lower(item_name)))
             ELSE IndexLoop(m, events, i + 1, acc)

BuildIndex(m, events) == IndexLoop(m, events, 1, EmptyIndex)

-----------------------------------------------------------------------------
\* check_tautulli_watch_history: the matching decision.

\* the orders in which a for loop may visit a set
Orders(S) ==
    {o \in [1..Cardinality(S) -> S] :
        \A i, j \in 1..Cardinality(S) : i # j => o[i] # o[j]}

\* the partial-match loop without the reverse containment test
RECURSIVE PartialMatchOneWay(_, _, _)
PartialMatchOneWay(title, order, i) ==
    IF i > Len(order) THEN "none"
    ELSE IF IsSubstring(Lower(title), order[i]) THEN "title_in_watched"
    ELSE IF title = Supernatural /\ IsSubstring(supernatural, order[i])
         THEN "special"
    ELSE PartialMatchOneWay(title, order, i + 1)

\* a loop whose special case does not look at the watched title
RECURSIVE PartialMatchSpecialAlways(_, _, _)
PartialMatchSpecialAlways(title, order, i) ==
    IF i > Len(order) THEN "none"
    ELSE IF IsSubstring(Lower(title), order[i]) THEN "title_in_watched"
    ELSE IF IsSubstring(order[i], Lower(title)) THEN "watched_in_title"
    ELSE IF title = Supernatural THEN "special"
    ELSE PartialMatchSpecialAlways(title, order, i + 1)

\* a loop that returns after its first iteration
PartialMatchFirstOnly(title, order, i) ==
    IF i > Len(order) THEN "none"
    ELSE IF IsSubstring(Lower(title), order[i]) THEN "title_in_watched"
    ELSE IF IsSubstring(order[i], Lower(title)) THEN "watched_in_title"
    ELSE IF title = Supernatural /\ IsSubstring(supernatural, order[i])
         THEN "special"
    ELSE "none"

\* a loop whose special case is tested before the containment tests
RECURSIVE PartialMatchSpecialFirst(_, _, _)
PartialMatchSpecialFirst(title, order, i) ==
    IF i > Len(order) THEN "none"
    ELSE IF title = Supernatural /\ IsSubstring(supernatural, order[i])
         THEN "special"
    ELSE IF IsSubstring(Lower(title), order[i]) THEN "title_in_watched"
    ELSE IF IsSubstring(order[i], Lower(title)) THEN "watched_in_title"
    ELSE PartialMatchSpecialFirst(title, order, i + 1)

\* the partial-match loop: the first test that succeeds returns
RECURSIVE PartialMatch(_, _, _)
PartialMatch(title, order, i) ==
    IF i > Len(order) THEN "none"
    ELSE IF IsSubstring(Lower(title), order[i]) THEN "title_in_watched"
    ELSE IF IsSubstring(order[i], Lower(title)) THEN "watched_in_title"
    ELSE IF title = Supernatural /\ IsSubstring(supernatural, order[i])
         THEN "special"
    ELSE PartialMatch(title, order, i + 1)

\* direct match first, then the loop; the name of the test that returned
MatchStep(title, watched, order) ==
    IF Lower(title) \in watched THEN "exact" ELSE PartialMatch(title, order, 1)

\* the boolean the function returns
IsWatched(title, watched, order) == MatchStep(title, watched, order) # "none"

-----------------------------------------------------------------------------
\* SpecMatch: inputs.

Up == <<"U","p">>
Unplugged == <<"U","n","p","l","u","g","g","e","d">>
Upgrade == <<"U","p","g","r","a","d","e">>
TheSupernaturalist ==
    <<"T","h","e"," ","S","u","p","e","r","n","a","t","u","r","a","l","i","s","t">>
EpisodeTitle == <<"P","i","l","o","t">>

Alphabet == {"a", "b", "A"}
Strings(n) == UNION {[1..k -> Alphabet] : k \in 0..n}

CandidateTitles == Strings(MaxLen) \cup {Up, Supernatural, supernatural}

\* subject titles as the history service reports them
SubjectTitles ==
    {Unplugged, Upgrade, TheSupernaturalist, Supernatural,
     <<"A","b">>, <<"b">>, <<"a","a","b">>, <<>>, Missing}

\* a history row: for an episode the show is the grandparent_title, for a
\* movie the title is the subject and there is no grandparent
HistoryRow(m, t) ==
    IF m = "sonarr"
    THEN [grandparent_title |-> t, title |-> EpisodeTitle]
    ELSE [grandparent_title |-> Missing, title |-> t]

EventLists(m) ==
    UNION {[1..n -> {HistoryRow(m, t) : t \in SubjectTitles}] : n \in 0..MaxEvents}

InitMatch ==
    /\ m_pc = "input"
    /\ m_mode \in Modes
    /\ item_title \in CandidateTitles
    /\ m_events \in EventLists(m_mode)
    /\ watched_items = {}
    /\ watch_counts = EmptyIndex.watch_counts
    /\ m_order = <<>>
    /\ m_step = "none"

\* lines 297-312: the index is built from the rows of the response
MatchBuildIndex ==
    /\ m_pc = "input"
    /\ LET index == BuildIndex(m_mode, m_events)
       IN  /\ watched_items' = index.watched_items
           /\ watch_counts' = index.watch_counts
    /\ m_pc' = "indexed"
    /\ UNCHANGED <<m_mode, item_title, m_events, m_order, m_step>>
    /\ UNCHANGED <<rankVars, upstreamVars, runVars, auxVars>>

\* lines 331-360: the decision, for one iteration order of the set
MatchDecide ==
    /\ m_pc = "indexed"
    /\ \E order \in Orders(watched_items) :
        /\ m_order' = order
        /\ m_step' = MatchStep(item_title, watched_items, order)
    /\ m_pc' = "matched"
    /\ UNCHANGED <<m_mode, item_title, m_events, watched_items, watch_counts>>
    /\ UNCHANGED <<rankVars, upstreamVars, runVars, auxVars>>

NextMatch == MatchBuildIndex \/ MatchDecide

-----------------------------------------------------------------------------
\* get_top_items_by_size: sorted(items, key=sizeOnDisk, reverse=True)[:limit]

\* insertion that puts x before its equals
RECURSIVE InsertBeforeEquals(_, _)
InsertBeforeEquals(sorted, x) ==
    IF sorted = <<>> THEN <<x>>
    ELSE IF Head(sorted).sizeOnDisk > x.sizeOnDisk
         THEN <<Head(sorted)>> \o InsertBeforeEquals(Tail(sorted), x)
         ELSE <<x>> \o sorted

\* x goes after every element at least as large: sorted() is stable, and with
\* reverse=True equal elements keep their original order
RECURSIVE InsertDesc(_, _)
InsertDesc(sorted, x) ==
    IF sorted = <<>> THEN <<x>>
    ELSE IF Head(sorted).sizeOnDisk >= x.sizeOnDisk
         THEN <<Head(sorted)>> \o InsertDesc(Tail(sorted), x)
         ELSE <<x>> \o sorted

RECURSIVE SortLoop(_, _, _)
SortLoop(its, i, acc) ==
    IF i > Len(its) THEN acc
    ELSE SortLoop(its, i + 1, InsertDesc(acc, its[i]))

SortedDesc(its) == SortLoop(its, 1, <<>>)

\* a slice that stops one element late
SliceToInclusive(s, lim) ==
    IF lim >= 0 THEN SubSeq(s, 1, Min(lim + 1, Len(s)))
    ELSE SubSeq(s, 1, Max(Len(s) + lim + 1, 0))

\* s[:lim]: a negative lim counts from the end
SliceTo(s, lim) ==
    IF lim >= 0 THEN SubSeq(s, 1, Min(lim, Len(s)))
    ELSE SubSeq(s, 1, Max(Len(s) + lim, 0))

\* a truncation of the inventory as it came
TopItemsUnsorted(its, lim) == SliceTo(its, lim)

\* line 151
TopItems(its, lim) == SliceTo(SortedDesc(its), lim)

-----------------------------------------------------------------------------
\* SpecRank: inputs.

RankSizes == {0, 100, 500}
RankTitle == <<"A">>

\* inventories with sizes attached; the id of an item is its position
RankInventories ==
    UNION {{[i \in 1..n |-> [id |-> i, title |-> RankTitle, sizeOnDisk |-> f[i]]] :
              f \in [1..n -> RankSizes]} : n \in 0..MaxRankItems}

InitRank ==
    /\ r_pc = "input"
    /\ r_items \in RankInventories
    /\ r_limit \in (0 - MaxLimit)..MaxLimit
    /\ r_top = <<>>

\* line 151
Rank ==
    /\ r_pc = "input"
    /\ r_top' = TopItems(r_items, r_limit)
    /\ r_pc' = "ranked"
    /\ UNCHANGED <<r_items, r_limit>>
    /\ UNCHANGED <<matchVars, upstreamVars, runVars, auxVars>>

NextRank == Rank

-----------------------------------------------------------------------------
\* Spec: what the upstream services hold during a run.

\* item.get('path') when the item has no path
NoPath == "None"

\* titles of library items
LibraryTitles == {<<"A">>, <<"B">>}

PathOf(i) ==
    CASE i = 1 -> "/data/1"
      [] i = 2 -> NoPath
      [] OTHER -> "/data/n"

DiskSizes == {100, 500}

\* the catalogue of the library manager; item i has id i
Libraries ==
    UNION {{[i \in 1..n |-> [id |-> i, title |-> t[i], path |-> PathOf(i),
                             sizeOnDisk |-> f[i]]] :
              t \in [1..n -> LibraryTitles], f \in [1..n -> DiskSizes]} :
           n \in 0..MaxItems}

Limits == {1, 2}

Section(id, type, name) ==
    [section_id |-> id, section_type |-> type, section_name |-> name]

SectionLists ==
    { <<>>,
      <<Section(1, "movie", "Films")>>,
      <<Section(1, "show", "Anime"), Section(2, "movie", "TV Shows"),
        Section(3, "show", "TV Shows")>>,
      <<Section(1, "movie", "Kids"), Section(2, "show", "Anime"),
        Section(3, "show", "Cartoons")>> }

Histories(m) ==
    { <<>>,
      <<HistoryRow(m, <<"A">>)>>,
      <<HistoryRow(m, <<"B">>), HistoryRow(m, Missing)>>,
      <<HistoryRow(m, <<"A","a">>), HistoryRow(m, <<"a","A">>),
        HistoryRow(m, <<"S">>)>> }

-----------------------------------------------------------------------------
\* Spec: helpers of the run.

\* lines 55 and 61: the fallbacks of the configured library name
tautulli_library_name(m) == IF m = "sonarr" THEN "TV Shows" ELSE "Films"

\* line 246
section_type(m) == IF m = "sonarr" THEN "show" ELSE "movie"

\* the first of the indices at which a for loop breaks, 0 when it never does
FirstSection(wanted) ==
    IF wanted = {} THEN 0
    ELSE CHOOSE i \in wanted : \A j \in wanted : i <= j

\* a selection that takes the configured name without looking at the type
TargetSectionByName(m, secs) ==
    LET by_name == {i \in 1..Len(secs) :
                      secs[i].section_name = tautulli_library_name(m)}
        by_type == {i \in 1..Len(secs) :
                      secs[i].section_type = section_type(m)}
    IN  IF FirstSection(by_name) # 0 THEN FirstSection(by_name)
        ELSE FirstSection(by_type)

\* lines 248-262: by type and name first, else the first of the type;
\* 0 stands for target_section = None
TargetSection(m, secs) ==
    LET by_name == {i \in 1..Len(secs) :
                      /\ secs[i].section_type = section_type(m)
                      /\ secs[i].section_name = tautulli_library_name(m)}
        by_type == {i \in 1..Len(secs) :
                      secs[i].section_type = section_type(m)}
    IN  IF FirstSection(by_name) # 0 THEN FirstSection(by_name)
        ELSE FirstSection(by_type)

\* the record appended for an unwatched candidate (lines 395-401);
\* size_human is a function of size alone and is left out here
UnwatchedRecord(item) ==
    [id |-> item.id, title |-> item.title, size |-> item.sizeOnDisk,
     path |-> IF item.path = NoPath THEN "Unknown" ELSE item.path]

\* a filter that keeps the watched candidates
RECURSIVE FilterWatched(_, _, _, _)
FilterWatched(top, results, j, acc) ==
    IF j > Len(top) \/ j > Len(results) THEN acc
    ELSE FilterWatched(top, results, j + 1,
            IF results[j] THEN Append(acc, UnwatchedRecord(top[j])) ELSE acc)

\* lines 391-401: zip(top_items, watch_results), keep those not watched
RECURSIVE FilterUnwatched(_, _, _, _)
FilterUnwatched(top, results, j, acc) ==
    IF j > Len(top) \/ j > Len(results) THEN acc
    ELSE FilterUnwatched(top, results, j + 1,
            IF ~results[j] THEN Append(acc, UnwatchedRecord(top[j])) ELSE acc)

\* line 520: sorted(unwatched_items, key=size, reverse=True)
RECURSIVE InsertBySize(_, _)
InsertBySize(sorted, x) ==
    IF sorted = <<>> THEN <<x>>
    ELSE IF Head(sorted).size >= x.size
         THEN <<Head(sorted)>> \o InsertBySize(Tail(sorted), x)
         ELSE <<x>> \o sorted

RECURSIVE SortBySizeLoop(_, _, _)
SortBySizeLoop(recs, i, acc) ==
    IF i > Len(recs) THEN acc
    ELSE SortBySizeLoop(recs, i + 1, InsertBySize(acc, recs[i]))

sorted_items(recs) == SortBySizeLoop(recs, 1, <<>>)

\* tasks the event loop still holds when asyncio.run returns are cancelled
CancelSizeTasks(tasks) ==
    [i \in 1..Len(tasks) |->
        IF tasks[i].pc \in {"created", "running"}
        THEN [tasks[i] EXCEPT !.pc = "cancelled"] ELSE tasks[i]]

CancelWatchTasks(tasks) ==
    [j \in 1..Len(tasks) |->
        IF tasks[j].pc \in {"created", "sections", "history"}
        THEN [tasks[j] EXCEPT !.pc = "cancelled"] ELSE tasks[j]]

-----------------------------------------------------------------------------
\* Spec: the run.

InitRun ==
    /\ mode \in Modes
    /\ limit \in Limits
    /\ library \in Libraries
    /\ sections \in SectionLists
    /\ history \in Histories(mode)
    /\ pc = "get_items"
    /\ session = "None"
    /\ sessions_created = 0
    /\ sessions_closed = 0
    /\ exc = "none"
    /\ exit_code = 0 - 1
    /\ requests = [inventory |-> 0, size |-> 0, sections |-> 0, history |-> 0]
    /\ request_sessions = {}
    /\ inventory_outcome = "pending"
    /\ items = <<>>
    /\ size_tasks = <<>>
    /\ top_items = <<>>
    /\ watch_tasks = <<>>
    /\ watch_results = <<>>
    /\ unwatched_items = <<>>
    /\ json_report = "none"
    /\ html_report = "none"

\* a setup that makes a session without looking for one
setup_session_unchecked ==
    /\ session' = "open"
    /\ sessions_created' = sessions_created + 1
    /\ UNCHANGED sessions_closed

\* lines 177-180: the session is created if there is none
setup_session ==
    /\ session' = "open"
    /\ sessions_created' = IF session = "None" THEN sessions_created + 1
                           ELSE sessions_created
    /\ UNCHANGED sessions_closed

\* lines 85, 102, 120, 213, 286: the request goes out on self.session, which
\* is the session made last
UsesSession == request_sessions' = request_sessions \cup {sessions_created'}

\* lines 79-85: get_items up to its request
GetItemsRequest ==
    /\ pc = "get_items"
    /\ setup_session
    /\ requests' = [requests EXCEPT !.inventory = @ + 1]
    /\ UsesSession
    /\ pc' = "await_items"
    /\ UNCHANGED <<auxVars, matchVars, rankVars, upstreamVars, inventory_outcome, exc, exit_code, items, size_tasks, top_items,
                   watch_tasks, watch_results, unwatched_items, json_report,
                   html_report>>

\* a failed inventory that is taken for an empty one
InventoryFailsSoft ==
    /\ items' = <<>>
    /\ size_tasks' = <<>>
    /\ pc' = "size_fanout"
    /\ UNCHANGED exc

\* lines 89-91: a ClientError (unreachable, non-2xx) ends in sys.exit(1)
InventoryClientError ==
    /\ exc' = "SystemExit"
    /\ pc' = "finally"
    /\ UNCHANGED <<items, size_tasks>>

\* lines 85-88 and 136-141: the response of the inventory request
GetItemsResponse ==
    /\ pc = "await_items"
    /\ \/ \* 2xx with a JSON list: one size coroutine per item
          /\ items' = [i \in 1..Len(library) |->
                          [id |-> library[i].id, title |-> library[i].title,
                           path |-> library[i].path]]
          /\ size_tasks' = [i \in 1..Len(library) |->
                          [item_id |-> library[i].id, pc |-> "created",
                           result |-> 0]]
          /\ pc' = "size_fanout"
          /\ inventory_outcome' = "ok"
          /\ UNCHANGED exc
       \/ \* aiohttp.ClientError
          /\ inventory_outcome' = "client_error"
          /\ InventoryClientError
       \/ \* any other exception is not caught and unwinds main_async
          /\ inventory_outcome' = "error"
          /\ exc' = "Exception"
          /\ pc' = "finally"
          /\ UNCHANGED <<items, size_tasks>>
    /\ UNCHANGED <<auxVars, matchVars, rankVars, upstreamVars, session, sessions_created, sessions_closed,
                   exit_code, requests, request_sessions, top_items, watch_tasks, watch_results,
                   unwatched_items, json_report, html_report>>

\* lines 114-120: a size coroutine runs to its request; the tasks of one
\* gather take their first step in the order they were handed over
SizeTaskStart(i) ==
    /\ pc = "size_fanout"
    /\ size_tasks[i].pc = "created"
    /\ \A k \in 1..(i - 1) : size_tasks[k].pc # "created"
    /\ setup_session
    /\ requests' = [requests EXCEPT !.size = @ + 1]
    /\ UsesSession
    /\ size_tasks' = [size_tasks EXCEPT ![i].pc = "running"]
    /\ UNCHANGED <<auxVars, matchVars, rankVars, upstreamVars, inventory_outcome, pc, exc, exit_code, items, top_items,
                   watch_tasks, watch_results, unwatched_items, json_report,
                   html_report>>

\* the true size of the item a size request names
SizeOf(item_id) ==
    LET i == CHOOSE k \in 1..Len(library) : library[k].id = item_id
    IN  library[i].sizeOnDisk

\* lines 120-129: the response of a size request, in any order among the
\* running tasks; gather hands the first exception to its awaiter at once
SizeTaskResponse(i) ==
    /\ pc \in {"size_fanout", "finally"}
    /\ size_tasks[i].pc = "running"
    /\ \A k \in 1..Len(size_tasks) : size_tasks[k].pc # "created"
    /\ \/ \* 2xx with the size field
          /\ size_tasks' = [size_tasks EXCEPT ![i].pc = "ok",
                                ![i].result = SizeOf(size_tasks[i].item_id)]
          /\ UNCHANGED <<pc, exc>>
       \/ \* 2xx without the size field: the default of .get
          /\ size_tasks' = [size_tasks EXCEPT ![i].pc = "degraded",
                                              ![i].result = 0]
          /\ UNCHANGED <<pc, exc>>
       \/ \* aiohttp.ClientError (connection error, non-2xx): return 0
          /\ size_tasks' = [size_tasks EXCEPT ![i].pc = "degraded",
                                              ![i].result = 0]
          /\ UNCHANGED <<pc, exc>>
       \/ \* an exception that is no ClientError (a timeout, a body that is not
          \* JSON, "statistics": null) leaves the coroutine
          /\ size_tasks' = [size_tasks EXCEPT ![i].pc = "raised"]
          /\ IF pc = "size_fanout"
             THEN exc' = "Exception" /\ pc' = "finally"
             ELSE UNCHANGED <<pc, exc>>
    /\ UNCHANGED <<auxVars, matchVars, rankVars, upstreamVars, inventory_outcome, session, sessions_created, sessions_closed,
                   exit_code, requests, request_sessions, items, top_items, watch_tasks,
                   watch_results, unwatched_items, json_report, html_report>>

\* a pairing that reads the sizes from the end of the list
AttachSizesReversed(its, sizes) ==
    [i \in 1..Len(its) |->
        [id |-> its[i].id, title |-> its[i].title, path |-> its[i].path,
         sizeOnDisk |-> sizes[Len(its) + 1 - i]]]

\* lines 147-148: item i gets sizes[i]
AttachSizes(its, sizes) ==
    [i \in 1..Len(its) |->
        [id |-> its[i].id, title |-> its[i].title, path |-> its[i].path,
         sizeOnDisk |-> sizes[i]]]

\* a wait that returns as soon as one size task has returned
FirstSizeGathered ==
    \/ size_tasks = <<>>
    \/ \E i \in 1..Len(size_tasks) : size_tasks[i].pc \in {"ok", "degraded"}

\* line 144: gather returns when every size task has returned
SizesGathered ==
    \A i \in 1..Len(size_tasks) : size_tasks[i].pc \in {"ok", "degraded"}

\* lines 144-153 and 382-388: gather returns the sizes in task order, they
\* are attached, the items are ranked, one watch coroutine per candidate
GatherSizes ==
    /\ pc = "size_fanout"
    /\ SizesGathered
    /\ LET sizes == [i \in 1..Len(size_tasks) |-> size_tasks[i].result]
           sized == AttachSizes(items, sizes)
           top == TopItems(sized, limit)
       IN  /\ items' = sized
           /\ top_items' = top
           /\ watch_tasks' = [j \in 1..Len(top) |->
                                [title |-> top[j].title, pc |-> "created",
                                 listing |-> "pending", query |-> "none",
                                 section_id |-> 0, watched |-> FALSE]]
    /\ pc' = "watch_fanout"
    /\ UNCHANGED <<auxVars, matchVars, rankVars, upstreamVars, inventory_outcome, session, sessions_created, sessions_closed,
                   exc, exit_code, requests, request_sessions, size_tasks, watch_results,
                   unwatched_items, json_report, html_report>>

\* lines 233-243 and 205-213: a watch coroutine runs to the get_libraries
\* request of its own get_tautulli_library_sections call
WatchTaskStart(j) ==
    /\ pc = "watch_fanout"
    /\ watch_tasks[j].pc = "created"
    /\ \A k \in 1..(j - 1) : watch_tasks[k].pc # "created"
    /\ setup_session
    /\ requests' = [requests EXCEPT !.sections = @ + 1]
    /\ UsesSession
    /\ watch_tasks' = [watch_tasks EXCEPT ![j].pc = "sections"]
    /\ UNCHANGED <<auxVars, matchVars, rankVars, upstreamVars, inventory_outcome, pc, exc, exit_code, items, size_tasks,
                   top_items, watch_results, unwatched_items, json_report,
                   html_report>>

\* lines 245-286, given the list get_tautulli_library_sections returned:
\* without a target section the coroutine returns False, with one it sends
\* its own get_history request
AfterSections(j, library_sections, listing) ==
    LET t == TargetSection(mode, library_sections)
    IN  IF t = 0
        THEN /\ watch_tasks' = [watch_tasks EXCEPT ![j].pc = "done",
                                    ![j].listing = listing,
                                    ![j].watched = FALSE]
             /\ UNCHANGED <<session, sessions_created, sessions_closed, requests, request_sessions>>
        ELSE /\ watch_tasks' = [watch_tasks EXCEPT ![j].pc = "history",
                                    ![j].listing = listing,
                                    ![j].query = "pending",
                                    ![j].section_id =
                                        library_sections[t].section_id]
             /\ setup_session
             /\ requests' = [requests EXCEPT !.history = @ + 1]
             /\ UsesSession

\* lines 213-226: the response of the get_libraries request
WatchSectionsResponse(j) ==
    /\ pc = "watch_fanout"
    /\ watch_tasks[j].pc = "sections"
    /\ \A k \in 1..Len(watch_tasks) : watch_tasks[k].pc # "created"
    /\ \/ \* result == 'success': the data
          AfterSections(j, sections, "ok")
       \/ \* result != 'success': []
          AfterSections(j, <<>>, "failed")
       \/ \* any exception (connection error, non-2xx, bad body): []
          AfterSections(j, <<>>, "failed")
    /\ UNCHANGED <<auxVars, matchVars, rankVars, upstreamVars, inventory_outcome, pc, exc, exit_code, items, size_tasks,
                   top_items, watch_results, unwatched_items, json_report,
                   html_report>>

\* a handler that takes the candidate for watched
OnExceptionWatched == TRUE

\* lines 364-368: what the coroutine returns from `except Exception`
OnException == FALSE

\* lines 286-368: the response of the get_history request
WatchHistoryResponse(j) ==
    /\ pc = "watch_fanout"
    /\ watch_tasks[j].pc = "history"
    /\ \/ \* result == 'success': build the index, decide
          LET watched == BuildIndex(mode, history).watched_items
          IN  \E order \in Orders(watched) :
                watch_tasks' = [watch_tasks EXCEPT ![j].pc = "done",
                    ![j].query = "ok",
                    ![j].watched =
                        IsWatched(watch_tasks[j].title, watched, order)]
       \/ \* result != 'success': return False
          watch_tasks' = [watch_tasks EXCEPT ![j].pc = "done",
                              ![j].query = "failed", ![j].watched = FALSE]
       \/ \* aiohttp.ClientError: return False
          watch_tasks' = [watch_tasks EXCEPT ![j].pc = "done",
                              ![j].query = "failed", ![j].watched = FALSE]
       \/ \* any other Exception: return False
          watch_tasks' = [watch_tasks EXCEPT ![j].pc = "done",
                              ![j].query = "failed",
                              ![j].watched = OnException]
    /\ UNCHANGED <<auxVars, matchVars, rankVars, upstreamVars, inventory_outcome, pc, session, sessions_created, sessions_closed,
                   exc, exit_code, requests, request_sessions, items, size_tasks, top_items,
                   watch_results, unwatched_items, json_report, html_report>>

\* line 388: gather returns when every watch task has returned
WatchGathered == \A j \in 1..Len(watch_tasks) : watch_tasks[j].pc = "done"

\* lines 388-403: gather returns the results in task order; the filter
GatherWatch ==
    /\ pc = "watch_fanout"
    /\ WatchGathered
    /\ LET results == [j \in 1..Len(watch_tasks) |-> watch_tasks[j].watched]
       IN  /\ watch_results' = results
           /\ unwatched_items' = FilterUnwatched(top_items, results, 1, <<>>)
    /\ pc' = "write_json"
    /\ UNCHANGED <<auxVars, matchVars, rankVars, upstreamVars, inventory_outcome, session, sessions_created, sessions_closed,
                   exc, exit_code, requests, request_sessions, items, size_tasks, top_items,
                   watch_tasks, json_report, html_report>>

\* lines 458-469: the JSON report holds unwatched_items as they are
WriteJson ==
    /\ pc = "write_json"
    /\ json_report' = unwatched_items
    /\ pc' = "write_html"
    /\ UNCHANGED <<auxVars, matchVars, rankVars, upstreamVars, inventory_outcome, session, sessions_created, sessions_closed,
                   exc, exit_code, requests, request_sessions, items, size_tasks, top_items,
                   watch_tasks, watch_results, unwatched_items, html_report>>

\* lines 471-473 and 519-536: the HTML table holds them sorted by size
WriteHtml ==
    /\ pc = "write_html"
    /\ html_report' = sorted_items(unwatched_items)
    /\ pc' = "finally"
    /\ UNCHANGED <<auxVars, matchVars, rankVars, upstreamVars, inventory_outcome, session, sessions_created, sessions_closed,
                   exc, exit_code, requests, request_sessions, items, size_tasks, top_items,
                   watch_tasks, watch_results, unwatched_items, json_report>>

\* a close that is reached on the normal path only
CloseOnSuccessOnly ==
    /\ pc = "finally"
    /\ IF session = "open" /\ exc = "none"
       THEN session' = "None" /\ sessions_closed' = sessions_closed + 1
       ELSE UNCHANGED <<session, sessions_closed>>
    /\ exit_code' = IF exc = "none" THEN 0 ELSE 1
    /\ size_tasks' = CancelSizeTasks(size_tasks)
    /\ watch_tasks' = CancelWatchTasks(watch_tasks)
    /\ pc' = "done"
    /\ UNCHANGED <<auxVars, matchVars, rankVars, upstreamVars, inventory_outcome, sessions_created, exc, requests, request_sessions, items,
                   top_items, watch_results, unwatched_items, json_report,
                   html_report>>

\* lines 572-576 and 182-186: the finally clause closes the session on every
\* way out of the try block; then the exception, if any, ends the process
\* with a non-zero status and asyncio.run cancels what is left
Finally ==
    /\ pc = "finally"
    /\ IF session = "open"
       THEN session' = "None" /\ sessions_closed' = sessions_closed + 1
       ELSE UNCHANGED <<session, sessions_closed>>
    /\ exit_code' = IF exc = "none" THEN 0 ELSE 1
    /\ size_tasks' = CancelSizeTasks(size_tasks)
    /\ watch_tasks' = CancelWatchTasks(watch_tasks)
    /\ pc' = "done"
    /\ UNCHANGED <<auxVars, matchVars, rankVars, upstreamVars, inventory_outcome, sessions_created, exc, requests, request_sessions, items,
                   top_items, watch_results, unwatched_items, json_report,
                   html_report>>

NextRun ==
    \/ GetItemsRequest
    \/ GetItemsResponse
    \/ \E i \in 1..Len(size_tasks) : SizeTaskStart(i)
    \/ \E i \in 1..Len(size_tasks) : SizeTaskResponse(i)
    \/ GatherSizes
    \/ \E j \in 1..Len(watch_tasks) : WatchTaskStart(j)
    \/ \E j \in 1..Len(watch_tasks) : WatchSectionsResponse(j)
    \/ \E j \in 1..Len(watch_tasks) : WatchHistoryResponse(j)
    \/ GatherWatch
    \/ WriteJson
    \/ WriteHtml
    \/ Finally

InitRunIdle ==
    /\ mode = "sonarr"
    /\ limit = 0
    /\ library = <<>>
    /\ sections = <<>>
    /\ history = <<>>
    /\ pc = "idle"
    /\ session = "None"
    /\ sessions_created = 0
    /\ sessions_closed = 0
    /\ exc = "none"
    /\ exit_code = 0 - 1
    /\ requests = [inventory |-> 0, size |-> 0, sections |-> 0, history |-> 0]
    /\ request_sessions = {}
    /\ inventory_outcome = "pending"
    /\ items = <<>>
    /\ size_tasks = <<>>
    /\ top_items = <<>>
    /\ watch_tasks = <<>>
    /\ watch_results = <<>>
    /\ unwatched_items = <<>>
    /\ json_report = "none"
    /\ html_report = "none"

-----------------------------------------------------------------------------
\* SpecSection: the section selection of check_tautulli_watch_history
\* (lines 243-268; sonarr_plex_analyzer.py lines 196-218), on drawn lists.

\* section_type values the history service reports
SectionTypes == {"show", "movie", "artist"}

\* section_name values; the two fallback names and another one
SectionNames == {"TV Shows", "Films", "Music"}

\* the lists get_tautulli_s_sections can return; section i has id i
DrawnSectionLists ==
    UNION {{[i \in 1..n |-> Section(i, t[i], nm[i])] :
              t \in [1..n -> SectionTypes], nm \in [1..n -> SectionNames]} :
           n \in 0..MaxSections}

InitSection ==
    /\ s_pc = "input"
    /\ s_mode \in Modes
    /\ s_sections \in DrawnSectionLists
    /\ target_section = 0

\* lines 248-268: the two loops and the test of target_section
SelectSection ==
    /\ s_pc = "input"
    /\ target_section' = TargetSection(s_mode, s_sections)
    /\ s_pc' = "selected"
    /\ UNCHANGED <<s_mode, s_sections>>
    /\ UNCHANGED <<matchVars, rankVars, upstreamVars, runVars, sizeVars,
                   cutoffVars, cleanupVars>>

NextSection == SelectSection

InitSectionIdle ==
    /\ s_pc = "idle"
    /\ s_mode = "sonarr"
    /\ s_sections = <<>>
    /\ target_section = 0

-----------------------------------------------------------------------------
\* SpecSize: human_readable_size (lines 538-550; sonarr_plex_analyzer.py
\* lines 467-479).  A size is held as its base-1024 digits, lowest first, so
\* that a division by 1024.0 moves one digit behind the point and sizes up
\* to the petabytes stay within the integers of the model.

\* line 546: the divisor and the threshold of the loop
Base == 1024

\* line 544
size_names ==
    << <<"B">>, <<"K", "B">>, <<"M", "B">>, <<"G", "B">>, <<"T", "B">>,
       <<"P", "B">> >>

\* a double holds 53 bits and a digit is 10 bits: a size whose non-zero
\* digits span at most this many places is held, and divided, exactly
ExactDigits == 53 \div 10

\* the digit values drawn: the extremes, the half and ties of both parities
DigitValues == {0, 1, 128, 384, 512, 1023}

\* the sizes drawn, of so many digits at most: z zero digits below up to ExactDigits digits of which
\* the lowest and the highest are not zero, so that the size is exact as a
\* double
SizesUpTo(digits) ==
    {<<>>} \cup
    UNION {UNION {{[p \in 1..(z + k) |-> IF p <= z THEN 0 ELSE mt[p - z]] :
                     mt \in {f \in [1..k -> DigitValues] :
                                f[1] # 0 /\ f[k] # 0}} :
                  k \in 1..Min(ExactDigits, digits - z)} :
           z \in 0..(digits - 1)}

\* the integer a short digit sequence stands for
RECURSIVE Value(_)
Value(ds) == IF ds = <<>> THEN 0 ELSE Head(ds) + Base * Value(Tail(ds))

DigitChar(d) == <<"0", "1", "2", "3", "4", "5", "6", "7", "8", "9">>[d + 1]

\* the decimal digits of a natural number
RECURSIVE DecimalDigits(_)
DecimalDigits(n) ==
    IF n < 10 THEN <<DigitChar(n)>>
    ELSE Append(DecimalDigits(n \div 10), DigitChar(n % 10))

\* lines 546-548: while size_bytes >= 1024 and i < len(size_names) - 1;
\* whole and frac are the digits before and behind the point
RECURSIVE DivideLoop(_, _, _)
DivideLoop(whole, frac, i) ==
    IF Len(whole) >= 2 /\ i < Len(size_names) - 1
    THEN DivideLoop(Tail(whole), Append(frac, Head(whole)), i + 1)
    ELSE [whole |-> whole, frac |-> frac, i |-> i]

\* 100 times the fraction: the hundredths before the point (quot) and the
\* digits that are left behind it (rem)
RECURSIVE TimesHundred(_, _, _)
TimesHundred(ds, carry, out) ==
    IF ds = <<>> THEN [quot |-> carry, rem |-> out]
    ELSE LET t == 100 * Head(ds) + carry
         IN  TimesHundred(Tail(ds), t \div Base, Append(out, t % Base))

\* a format that cuts off the digits behind the second decimal
RoundNever(quot, rem) == FALSE

\* the rounding of the .2f format: to the nearest hundredth, a tie to the
\* even one
RoundUp(quot, rem) ==
    LET n == Len(rem)
    IN  IF n = 0 THEN FALSE
        ELSE IF rem[n] # Base \div 2 THEN rem[n] > Base \div 2
        ELSE IF \E k \in 1..(n - 1) : rem[k] # 0 THEN TRUE
        ELSE quot % 2 = 1

\* line 550: f"{size_bytes:.2f}"
FormatTwoDecimals(whole, frac) ==
    LET sc == TimesHundred(frac, 0, <<>>)
        hundredths == sc.quot + (IF RoundUp(sc.quot, sc.rem) THEN 1 ELSE 0)
        w == Value(whole) + (IF hundredths = 100 THEN 1 ELSE 0)
        c == hundredths % 100
    IN  DecimalDigits(w) \o <<".", DigitChar(c \div 10), DigitChar(c % 10)>>

\* lines 541-550
human_readable_size(sz) ==
    IF sz = <<>> THEN <<"0", "B">>
    ELSE LET r == DivideLoop(sz, <<>>, 0)
         IN  FormatTwoDecimals(r.whole, r.frac) \o <<" ">>
                \o size_names[r.i + 1]

InitSize ==
    /\ h_pc = "input"
    /\ size_bytes \in SizesUpTo(MaxDigits)
    /\ size_human = <<>>

FormatSize ==
    /\ h_pc = "input"
    /\ size_human' = human_readable_size(size_bytes)
    /\ h_pc' = "formatted"
    /\ UNCHANGED size_bytes
    /\ UNCHANGED <<matchVars, rankVars, upstreamVars, runVars, sectionVars,
                   cutoffVars, cleanupVars>>

NextSize == FormatSize

InitSizeIdle == h_pc = "idle" /\ size_bytes = <<>> /\ size_human = <<>>

-----------------------------------------------------------------------------
\* SpecCutoff: the cutoff of the history query (lines 233-236, 283) as the
\* watch coroutines of one get_unwatched_items call compute it.  gather
\* starts the coroutines one after the other (lines 382-388); each reads the
\* clock itself, in its first statement.

\* datetime.timedelta(days=1), in seconds
SecondsPerDay == 86400

\* line 235: the days of one month of the lookback
DaysPerMonth == 30

\* the clock when get_unwatched_items is called
StartTimes == {1700000000}

\* args.months (line 557: type=int, default 2)
MonthsValues == {0 - 1, 0, 1, 2, 3, 12}

\* lines 234-236: the cutoff for a clock reading
unix_timestamp(now, m) == now - (DaysPerMonth * m) * SecondsPerDay

InitCutoff ==
    /\ clock \in StartTimes
    /\ ticks = 0
    /\ months \in MonthsValues
    /\ candidates \in 0..MaxItems
    /\ cutoff_tasks = <<>>

\* lines 234-236: the next coroutine starts and computes its cutoff
CutoffTaskStart ==
    /\ Len(cutoff_tasks) < candidates
    /\ cutoff_tasks' =
          Append(cutoff_tasks,
                 [now |-> clock,
                  unix_timestamp |-> unix_timestamp(clock, months)])
    /\ UNCHANGED <<clock, ticks, months, candidates>>
    /\ UNCHANGED <<matchVars, rankVars, upstreamVars, runVars, sectionVars,
                   sizeVars, cleanupVars>>

\* a second goes by while coroutines are still to start
Tick ==
    /\ Len(cutoff_tasks) < candidates
    /\ ticks < MaxTicks
    /\ clock' = clock + 1
    /\ ticks' = ticks + 1
    /\ UNCHANGED <<months, candidates, cutoff_tasks>>
    /\ UNCHANGED <<matchVars, rankVars, upstreamVars, runVars, sectionVars,
                   sizeVars, cleanupVars>>

NextCutoff == CutoffTaskStart \/ Tick

InitCutoffIdle ==
    /\ clock = 0
    /\ ticks = 0
    /\ months = 0
    /\ candidates = 0
    /\ cutoff_tasks = <<>>

-----------------------------------------------------------------------------
\* SpecCleanup: main_async from the return of get_unwatched_items on.  With
\* --tui it is interactive_cleanup that called it (line 407), without it
\* generate_report (WriteJson, WriteHtml); Finally closes in both.  The run
\* starts where every candidate was found unwatched because the section
\* listing failed, which is how the pipeline above gets there with every
\* drawn library.

\* what the operator may type at the [y/n] prompt, before .lower()
Responses ==
    { <<"y">>, <<"Y", "E", "S">>, <<"n">>, <<"N", "o">>, <<>>,
      <<"y", "e", "s", " ">> }

\* an acceptance that takes everything but a refusal for a yes
ConfirmedUnlessNo(response) == response \notin {<<"n">>, <<"n", "o">>}

\* line 433: response in ['y', 'yes'], on the lower-cased line
Confirmed(response) == response \in {<<"y">>, <<"y", "e", "s">>}

\* line 443: response in ['n', 'no']
Refused(response) == response \in {<<"n">>, <<"n", "o">>}

\* line 99: str(delete_files).lower()
deleteFiles(flag) == IF flag THEN "true" ELSE "false"

InitCleanup ==
    /\ mode \in Modes
    /\ limit \in Limits
    /\ library \in Libraries
    /\ sections = <<>>
    /\ history = <<>>
    /\ tui \in BOOLEAN
    /\ delete_files \in BOOLEAN
    /\ pc = IF tui THEN "interactive_cleanup" ELSE "write_json"
    /\ session = "open"
    /\ sessions_created = 1
    /\ sessions_closed = 0
    /\ exc = "none"
    /\ exit_code = 0 - 1
    /\ inventory_outcome = "ok"
    /\ items = library
    /\ size_tasks = [i \in 1..Len(library) |->
                        [item_id |-> library[i].id, pc |-> "ok",
                         result |-> library[i].sizeOnDisk]]
    /\ top_items = TopItems(library, limit)
    /\ watch_tasks = [j \in 1..Len(top_items) |->
                        [title |-> top_items[j].title, pc |-> "done",
                         listing |-> "failed", query |-> "none",
                         section_id |-> 0, watched |-> FALSE]]
    /\ watch_results = [j \in 1..Len(top_items) |-> FALSE]
    /\ unwatched_items = FilterUnwatched(top_items, watch_results, 1, <<>>)
    /\ requests = [inventory |-> 1, size |-> Len(library),
                   sections |-> Len(top_items), history |-> 0]
    /\ request_sessions = {1}
    /\ json_report = "none"
    /\ html_report = "none"
    /\ idx = 0
    /\ cleanup_events = <<>>
    /\ deleted_count = 0
    /\ freed_space = 0

\* lines 412-424: nothing to clean up, or the summary and the wait for Enter;
\* input() raises EOFError when the terminal is closed
CleanupStart ==
    /\ pc = "interactive_cleanup"
    /\ \/ \* line 412: not unwatched_items
          /\ unwatched_items = <<>>
          /\ pc' = "finally"
          /\ UNCHANGED <<idx, exc>>
       \/ \* line 421: Enter
          /\ unwatched_items # <<>>
          /\ pc' = "prompt"
          /\ idx' = 1
          /\ UNCHANGED exc
       \/ \* line 421: end of input
          /\ unwatched_items # <<>>
          /\ pc' = "finally"
          /\ exc' = "Exception"
          /\ UNCHANGED idx
    /\ UNCHANGED <<tui, delete_files, cleanup_events, deleted_count, freed_space>>
    /\ UNCHANGED <<matchVars, rankVars, upstreamVars, sectionVars, sizeVars,
                   cutoffVars, session, sessions_created, sessions_closed,
                   exit_code, requests, request_sessions, inventory_outcome, items, size_tasks,
                   top_items, watch_tasks, watch_results, unwatched_items,
                   json_report, html_report>>

\* lines 426 and 449-450: the for loop goes to the next item, or ends
NextItem ==
    IF idx < Len(unwatched_items)
    THEN idx' = idx + 1 /\ pc' = "prompt"
    ELSE idx' = idx /\ pc' = "finally"

\* lines 431-447 and 95-102: the operator types a line at the prompt of the
\* current item; y or yes sends the DELETE request of delete_item, n or no
\* skips the item, anything else asks again
Answer(line) ==
    /\ pc = "prompt"
    /\ Cardinality({p \in 1..Len(cleanup_events) : cleanup_events[p].kind = "answer"})
          < MaxAnswers
    /\ LET item == unwatched_items[idx]
           response == Lower(line)
           typed == [kind |-> "answer", item_id |-> item.id, line |-> line]
       IN  IF Confirmed(response)
           THEN /\ setup_session
                /\ cleanup_events' = cleanup_events \o
                      <<typed, [kind |-> "delete", item_id |-> item.id,
                                line |-> deleteFiles(delete_files)]>>
                /\ UsesSession
                /\ pc' = "await_delete"
                /\ UNCHANGED idx
           ELSE /\ cleanup_events' = Append(cleanup_events, typed)
                /\ IF Refused(response) THEN NextItem
                   ELSE UNCHANGED <<pc, idx>>
                /\ UNCHANGED <<session, sessions_created, sessions_closed,
                               request_sessions>>
    /\ UNCHANGED <<tui, delete_files, deleted_count, freed_space>>
    /\ UNCHANGED <<matchVars, rankVars, upstreamVars, sectionVars, sizeVars,
                   cutoffVars, exc, exit_code, requests, inventory_outcome,
                   items, size_tasks, top_items, watch_tasks, watch_results,
                   unwatched_items, json_report, html_report>>

\* line 432: input() raises EOFError when the terminal is closed
PromptEnds ==
    /\ pc = "prompt"
    /\ exc' = "Exception"
    /\ pc' = "finally"
    /\ UNCHANGED cleanupVars
    /\ UNCHANGED <<matchVars, rankVars, upstreamVars, sectionVars, sizeVars,
                   cutoffVars, session, sessions_created, sessions_closed,
                   exit_code, requests, request_sessions, inventory_outcome, items, size_tasks,
                   top_items, watch_tasks, watch_results, unwatched_items,
                   json_report, html_report>>

\* the catalogue once the library manager has deleted an item
Without(lib, item_id) == SelectSeq(lib, LAMBDA it : it.id # item_id)

\* lines 102-110 and 436-442: the response of the DELETE request
DeleteResponse ==
    /\ pc = "await_delete"
    /\ LET item == unwatched_items[idx]
       IN  \/ \* 200: True
              /\ deleted_count' = deleted_count + 1
              /\ freed_space' = freed_space + item.size
              /\ library' = Without(library, item.id)
              /\ NextItem
              /\ UNCHANGED exc
           \/ \* another status: False
              /\ NextItem
              /\ UNCHANGED <<deleted_count, freed_space, library, exc>>
           \/ \* aiohttp.ClientError: False
              /\ NextItem
              /\ UNCHANGED <<deleted_count, freed_space, library, exc>>
           \/ \* an exception that is no ClientError leaves interactive_cleanup
              /\ exc' = "Exception"
              /\ pc' = "finally"
              /\ UNCHANGED <<idx, deleted_count, freed_space, library>>
    /\ UNCHANGED <<tui, delete_files, cleanup_events>>
    /\ UNCHANGED <<matchVars, rankVars, mode, limit, sections, history,
                   sectionVars, sizeVars, cutoffVars, session,
                   sessions_created, sessions_closed, exit_code, requests, request_sessions,
                   inventory_outcome, items, size_tasks, top_items,
                   watch_tasks, watch_results, unwatched_items, json_report,
                   html_report>>

NextCleanup ==
    \/ CleanupStart
    \/ \E line \in Responses : Answer(line)
    \/ PromptEnds
    \/ DeleteResponse
    \/ WriteJson
    \/ WriteHtml
    \/ Finally

InitCleanupIdle ==
    /\ tui = FALSE
    /\ delete_files = FALSE
    /\ idx = 0
    /\ cleanup_events = <<>>
    /\ deleted_count = 0
    /\ freed_space = 0

InitAuxIdle ==
    InitSectionIdle /\ InitSizeIdle /\ InitCutoffIdle /\ InitCleanupIdle

-----------------------------------------------------------------------------
vars == <<matchVars, rankVars, upstreamVars, runVars, auxVars>>

InitRankIdle == r_pc = "idle" /\ r_items = <<>> /\ r_limit = 0 /\ r_top = <<>>

InitMatchIdle ==
    /\ m_pc = "idle"
    /\ m_mode = "sonarr"
    /\ item_title = <<>>
    /\ m_events = <<>>
    /\ watched_items = {}
    /\ watch_counts = EmptyIndex.watch_counts
    /\ m_order = <<>>
    /\ m_step = "none"

InitSpecMatch == InitMatch /\ InitRankIdle /\ InitRunIdle /\ InitAuxIdle
SpecMatch == InitSpecMatch /\ [][NextMatch]_vars

InitSpecRank == InitRank /\ InitMatchIdle /\ InitRunIdle /\ InitAuxIdle
SpecRank == InitSpecRank /\ [][NextRank]_vars

InitSpecSection ==
    InitSection /\ InitMatchIdle /\ InitRankIdle /\ InitRunIdle
       /\ InitSizeIdle /\ InitCutoffIdle /\ InitCleanupIdle
SpecSection == InitSpecSection /\ [][NextSection]_vars

InitSpecSize ==
    InitSize /\ InitMatchIdle /\ InitRankIdle /\ InitRunIdle
       /\ InitSectionIdle /\ InitCutoffIdle /\ InitCleanupIdle
SpecSize == InitSpecSize /\ [][NextSize]_vars

InitSpecCutoff ==
    InitCutoff /\ InitMatchIdle /\ InitRankIdle /\ InitRunIdle
       /\ InitSectionIdle /\ InitSizeIdle /\ InitCleanupIdle
SpecCutoff == InitSpecCutoff /\ [][NextCutoff]_vars

InitSpecCleanup ==
    InitCleanup /\ InitMatchIdle /\ InitRankIdle /\ InitSectionIdle
       /\ InitSizeIdle /\ InitCutoffIdle
SpecCleanup == InitSpecCleanup /\ [][NextCleanup]_vars

Init == InitRun /\ InitMatchIdle /\ InitRankIdle /\ InitAuxIdle
Next == NextRun
Spec == Init /\ [][Next]_vars

-----------------------------------------------------------------------------
\* Claims about the matching decision (SpecMatch).

\* the keys of the index are the lower-cased watched titles
Keys == watched_items

\* the decision as the specification words it, over the keys of an index
Matches(title, keys) ==
    \/ Lower(title) \in keys
    \/ \E k \in keys : IsSubstring(Lower(title), k)
    \/ \E k \in keys : IsSubstring(k, Lower(title))
    \/ title = Supernatural /\ \E k \in keys : IsSubstring(supernatural, k)

\* C2: the matcher returns true exactly when the lower-cased candidate is a
\* key, or is contained in a key, or contains a key, or the candidate is
\* "Supernatural" and a key contains "supernatural"; on an empty index it
\* returns false.
C2_MatchDecision ==
    m_pc = "matched" =>
        /\ (m_step # "none") <=> Matches(item_title, Keys)
        /\ (Keys = {} => m_step = "none")

\* a decision taken by the reverse containment test on an index of two keys
C2_Witness ==
    /\ m_pc = "matched"
    /\ m_step = "watched_in_title"
    /\ Cardinality(Keys) = 2

\* C3 as stated: "Up" against the index {"unplugged": 2} is watched.
C3_UpMatchesUnplugged ==
    (m_pc = "matched" /\ item_title = Up /\ Keys = {Lower(Unplugged)})
        => m_step # "none"

\* C3 amended: "Up" against {"unplugged": 2} is not watched, since "up" is
\* no contiguous run of "unplugged"; against {"upgrade": n}, which holds
\* "up" as a contiguous run, it is watched by containment.
C3_UpNeedsContiguousRun ==
    (m_pc = "matched" /\ item_title = Up) =>
        /\ Keys = {Lower(Unplugged)} => m_step = "none"
        /\ Keys = {Lower(Upgrade)} => m_step = "title_in_watched"

\* the claim's case: "Up" decided against the index {"unplugged": 2}
C3_Witness ==
    /\ m_pc = "matched"
    /\ item_title = Up
    /\ Keys = {Lower(Unplugged)}
    /\ watch_counts[Lower(Unplugged)] = 2

\* the subject title of event i: the show of an episode, the title of a movie
Subject(i) ==
    IF m_mode = "sonarr" THEN m_events[i].grandparent_title
    ELSE m_events[i].title

\* the events that have a subject title
Titled == {i \in 1..Len(m_events) : Subject(i) # <<>> /\ Subject(i) # Missing}

\* C15: after the index build every key is a non-empty lower-case string,
\* the counts are kept for the keys and no other, every count is at least 1
\* and is the number of events whose lower-cased subject title is the key;
\* the events without a subject title add no key and no count.
C15_IndexInvariant ==
    m_pc \in {"indexed", "matched"} =>
        /\ DOMAIN watch_counts = watched_items
        /\ watched_items = {Lower(Subject(i)) : i \in Titled}
        /\ \A k \in watched_items :
              /\ k # <<>>
              /\ \A c \in 1..Len(k) : LowerChar(k[c]) = k[c]
              /\ watch_counts[k] >= 1
              /\ watch_counts[k] =
                    Cardinality({i \in Titled : Lower(Subject(i)) = k})
        /\ Titled = {} => watched_items = {}

\* "Ab" was played twice and is counted twice under "ab"
C15_Witness ==
    /\ m_pc = "indexed"
    /\ Len(m_events) = 2
    /\ Subject(1) = <<"A", "b">>
    /\ Subject(2) = <<"A", "b">>
    /\ watched_items = {<<"a", "b">>}
    /\ watch_counts[<<"a", "b">>] = 2

\* the index {"the supernaturalist": 1}
SupernaturalistOnly ==
    /\ watched_items = {Lower(TheSupernaturalist)}
    /\ watch_counts[Lower(TheSupernaturalist)] = 1

\* C16 as stated: for "Supernatural" and {"the supernaturalist": 1} the
\* special case of line 353 is the test that returns, and for "supernatural"
\* it is not.
C16_SpecialCaseDecides ==
    m_pc = "matched" =>
        /\ (item_title = Supernatural /\ SupernaturalistOnly) =>
              m_step = "special"
        /\ item_title = supernatural => m_step # "special"

\* C16, amended: for "Supernatural" and {"the supernaturalist": 1} the
\* matcher returns true and the test that returns is the containment of the
\* lower-cased candidate in the key (line 343); the special case of line 353
\* is the test that returns for no candidate and no index, so not for
\* "supernatural" either, which matches by the same containment.
C16_ContainmentDecides ==
    m_pc = "matched" =>
        /\ m_step # "special"
        /\ (item_title \in {Supernatural, supernatural}
            /\ SupernaturalistOnly) => m_step = "title_in_watched"

\* "Supernatural" was decided against {"the supernaturalist": 1}
C16_Witness ==
    /\ m_pc = "matched"
    /\ item_title = Supernatural
    /\ SupernaturalistOnly
    /\ m_step = "title_in_watched"

-----------------------------------------------------------------------------
\* Claims about the ranking step (SpecRank).

\* the position of an item in the inventory
Pos(x) == CHOOSE i \in 1..Len(r_items) : r_items[i] = x

\* x is ranked before y: larger, or equal and earlier in the inventory
Before(x, y) ==
    \/ x.sizeOnDisk > y.sizeOnDisk
    \/ x.sizeOnDisk = y.sizeOnDisk /\ Pos(x) < Pos(y)

Range(s) == {s[i] : i \in 1..Len(s)}

\* C8 as stated: for every limit the ranking step returns min(limit, N) items.
C8_LengthIsMinLimitN ==
    r_pc = "ranked" => Len(r_top) = Min(r_limit, Len(r_items))

\* C8 amended: for every limit >= 0 the ranking step returns min(limit, N)
\* items; for a negative limit it returns max(N + limit, 0) items (the slice
\* counts a negative limit from the end).
C8_LengthBySliceRule ==
    r_pc = "ranked" =>
        /\ r_limit >= 0 => Len(r_top) = Min(r_limit, Len(r_items))
        /\ r_limit < 0 => Len(r_top) = Max(Len(r_items) + r_limit, 0)

\* a truncating rank, and one with a negative limit
C8_Witness ==
    /\ r_pc = "ranked"
    /\ Len(r_items) = 3
    /\ r_limit = 0 - 1
    /\ Len(r_top) = 2

\* C9: the output is sorted non-increasing by sizeOnDisk with equal sizes in
\* inventory order, and it is a prefix of the fully sorted inventory: every
\* item left out ranks after every item kept.
C9_OrderAndStability ==
    r_pc = "ranked" =>
        /\ Range(r_top) \subseteq Range(r_items)
        /\ \A p, q \in 1..Len(r_top) : p < q => Before(r_top[p], r_top[q])
        /\ \A x \in Range(r_items) \ Range(r_top) :
              \A y \in Range(r_top) : Before(y, x)

\* two items of equal size kept, a third one left out
C9_Witness ==
    /\ r_pc = "ranked"
    /\ Len(r_top) = 2
    /\ Len(r_items) = 3
    /\ r_top[1].sizeOnDisk = r_top[2].sizeOnDisk
    /\ r_items[1].sizeOnDisk < r_items[3].sizeOnDisk

-----------------------------------------------------------------------------
\* Claims about the run (Spec).

\* get_unwatched_items has returned
Filtered ==
    \/ pc \in {"write_json", "write_html"}
    \/ pc \in {"finally", "done"} /\ exc = "none"

\* the candidates whose task returned False
Kept == {j \in 1..Len(top_items) : ~watch_results[j]}

\* the rows every successful history query of the run returns, as an index
RunKeys == BuildIndex(mode, history).watched_items

\* C1: with K ranked candidates the section listing is requested once and the
\* history query at most once in the run, however many candidates there are.
C1_HistoryQueriedOnce ==
    (Filtered /\ Len(top_items) >= 1) =>
        /\ requests.sections = 1
        /\ requests.history <= 1

\* a history request of a candidate's task did not yield an index
Unavailable(t) ==
    \/ t.listing = "failed"
    \/ t.listing = "ok" /\ t.query = "none"
    \/ t.query = "failed"

\* C4: when the section listing fails or is empty, no section of the type
\* exists, or the history query fails, every ranked candidate of the run is
\* in the unwatched result.
C4_FailOpenForAll ==
    (Filtered /\ \E j \in 1..Len(watch_tasks) : Unavailable(watch_tasks[j]))
        => Len(unwatched_items) = Len(top_items)

\* C5: a size fetch ends with a size, or with 0 on a failure; no failure
\* leaves the coroutine, so none ends the run.
C5_SizeFailureIsAbsorbed ==
    \A i \in 1..Len(size_tasks) :
        /\ size_tasks[i].pc # "raised"
        /\ size_tasks[i].pc = "degraded" => size_tasks[i].result = 0

\* C6: after a failed inventory request the run ends with a non-zero exit
\* status, and no size request, no history-service request and no report
\* was made.
C6_InventoryFailureIsFatal ==
    inventory_outcome \in {"client_error", "error"} =>
        /\ pc \in {"finally", "done"}
        /\ pc = "done" => exit_code # 0
        /\ requests.size = 0
        /\ requests.sections = 0
        /\ requests.history = 0
        /\ json_report = "none"
        /\ html_report = "none"

\* the run has ended after sys.exit(1) in get_items
C6_Witness ==
    /\ pc = "done"
    /\ inventory_outcome = "client_error"
    /\ exc = "SystemExit"
    /\ exit_code = 1

\* C7: when the run has ended, on whichever path, every session that was
\* created has been closed and self.session is None.
C7_SessionReleased ==
    pc = "done" =>
        /\ session = "None"
        /\ sessions_closed = sessions_created

\* the run ended by an exception out of the size fan-out, session closed
C7_Witness ==
    /\ pc = "done"
    /\ exc = "Exception"
    /\ inventory_outcome = "ok"
    /\ sessions_created = 1
    /\ sessions_closed = 1

\* C10: the result holds one record for each candidate whose task returned
\* False and no other, each with that candidate's id, title, size and path;
\* a task whose history query succeeded returned the matching decision; so
\* for A=500, B=100, limit 2 and the index {"a": 1} the result is B's record.
C10_UnwatchedIsFilter ==
    Filtered =>
        /\ Len(watch_results) = Len(top_items)
        /\ \A j \in 1..Len(top_items) :
              /\ watch_results[j] = watch_tasks[j].watched
              /\ watch_tasks[j].query = "ok" =>
                    (watch_results[j] <=> Matches(top_items[j].title, RunKeys))
        /\ Len(unwatched_items) = Cardinality(Kept)
        /\ \A j \in Kept : \E p \in 1..Len(unwatched_items) :
              unwatched_items[p].id = top_items[j].id
        /\ \A p \in 1..Len(unwatched_items) : \E j \in Kept :
              /\ unwatched_items[p].id = top_items[j].id
              /\ unwatched_items[p].title = top_items[j].title
              /\ unwatched_items[p].size = top_items[j].sizeOnDisk
              /\ unwatched_items[p].path =
                    (IF top_items[j].path = NoPath THEN "Unknown"
                     ELSE top_items[j].path)
        /\ ( /\ Len(top_items) = 2
             /\ top_items[1].title = <<"A">> /\ top_items[1].sizeOnDisk = 500
             /\ top_items[2].title = <<"B">> /\ top_items[2].sizeOnDisk = 100
             /\ RunKeys = {<<"a">>}
             /\ \A j \in 1..2 : watch_tasks[j].query = "ok" )
           => /\ Len(unwatched_items) = 1
              /\ unwatched_items[1].id = top_items[2].id
              /\ unwatched_items[1].title = <<"B">>
              /\ unwatched_items[1].size = 100

\* the example of the claim: A=500 watched, B=100 not
C10_Witness ==
    /\ pc = "write_json"
    /\ limit = 2
    /\ Len(top_items) = 2
    /\ top_items[1].title = <<"A">> /\ top_items[1].sizeOnDisk = 500
    /\ top_items[2].title = <<"B">> /\ top_items[2].sizeOnDisk = 100
    /\ RunKeys = {<<"a">>}
    /\ \A j \in 1..2 : watch_tasks[j].query = "ok"
    /\ Len(unwatched_items) = 1
    /\ unwatched_items[1].id = 2

\* C12: a candidate whose evaluation ended in an error counts as not
\* watched; the error does not end the run and cancels no sibling; every
\* sibling gets a result, a sibling whose history query succeeded gets the
\* matching decision, and the failed candidate is in the unwatched result.
C12_ErrorIsolation ==
    \A j \in 1..Len(watch_tasks) :
        watch_tasks[j].query = "failed" =>
            /\ watch_tasks[j].pc = "done"
            /\ ~watch_tasks[j].watched
            /\ exc = "none"
            /\ \A k \in 1..Len(watch_tasks) : watch_tasks[k].pc # "cancelled"
            /\ Filtered =>
                  /\ Len(watch_results) = Len(top_items)
                  /\ ~watch_results[j]
                  /\ \E p \in 1..Len(unwatched_items) :
                        unwatched_items[p].id = top_items[j].id
                  /\ \A k \in 1..Len(watch_tasks) :
                        watch_tasks[k].query = "ok" =>
                            (watch_results[k] <=>
                                Matches(top_items[k].title, RunKeys))

\* the first candidate's evaluation failed before the second one's history
\* query answered; the second one was found watched all the same
C12_Witness ==
    /\ Filtered
    /\ Len(watch_tasks) = 2
    /\ watch_tasks[1].query = "failed"
    /\ watch_tasks[2].query = "ok"
    /\ watch_results[2]
    /\ Len(unwatched_items) = 1
    /\ unwatched_items[1].id = top_items[1].id

\* C13: once the watch coroutines exist, and so before any of them starts,
\* every size task has returned a size or the default 0; once
\* get_unwatched_items is past its gather, every watch task has returned and
\* there is one result per task.
C13_GatherBarriers ==
    /\ watch_tasks # <<>> =>
          \A i \in 1..Len(size_tasks) :
              size_tasks[i].pc \in {"ok", "degraded"}
    /\ (pc \notin {"get_items", "await_items", "size_fanout", "watch_fanout"}
        /\ exc = "none") =>
          /\ \A j \in 1..Len(watch_tasks) : watch_tasks[j].pc = "done"
          /\ Len(watch_results) = Len(watch_tasks)
    /\ (watch_results # <<>> \/ unwatched_items # <<>>) =>
          \A j \in 1..Len(watch_tasks) : watch_tasks[j].pc = "done"

\* the first watch task has started and the second has not; of the two size
\* tasks one ended with a size and one with the default
C13_Witness ==
    /\ pc = "watch_fanout"
    /\ Len(watch_tasks) = 2
    /\ watch_tasks[1].pc = "sections"
    /\ watch_tasks[2].pc = "created"
    /\ Len(size_tasks) = 2
    /\ size_tasks[1].pc = "degraded"
    /\ size_tasks[2].pc = "ok"

\* get_top_items_by_size has returned
Ranked ==
    \/ pc \in {"watch_fanout", "write_json", "write_html"}
    \/ pc \in {"finally", "done"} /\ exc = "none"

\* C14: whatever the order in which the tasks ended, inventory item i
\* carries the result of the size task created for item i's id (the size the
\* library manager holds for that id, or 0), and ranked candidate j is paired
\* with the result of the watch task created for candidate j's title.
C14_IndexAligned ==
    /\ Ranked =>
          /\ Len(size_tasks) = Len(items)
          /\ \A i \in 1..Len(items) :
                /\ size_tasks[i].item_id = items[i].id
                /\ items[i].sizeOnDisk = size_tasks[i].result
                /\ size_tasks[i].pc = "ok" =>
                      items[i].sizeOnDisk = SizeOf(items[i].id)
                /\ size_tasks[i].pc = "degraded" => items[i].sizeOnDisk = 0
          /\ Len(watch_tasks) = Len(top_items)
          /\ \A j \in 1..Len(top_items) :
                watch_tasks[j].title = top_items[j].title
    /\ Filtered =>
          /\ Len(watch_results) = Len(top_items)
          /\ \A j \in 1..Len(top_items) :
                /\ watch_results[j] = watch_tasks[j].watched
                /\ (\E p \in 1..Len(unwatched_items) :
                       unwatched_items[p].id = top_items[j].id)
                   <=> ~watch_tasks[j].watched

\* two items of different sizes and titles, ranked in the reverse of the
\* inventory order, the two watch tasks with different results
C14_Witness ==
    /\ Filtered
    /\ Len(items) = 2
    /\ items[1].sizeOnDisk = 100 /\ items[2].sizeOnDisk = 500
    /\ items[1].title # items[2].title
    /\ Len(top_items) = 2
    /\ top_items[1].id = 2 /\ top_items[2].id = 1
    /\ Len(watch_results) = 2
    /\ ~watch_results[1] /\ watch_results[2]
    /\ Len(unwatched_items) = 1
    /\ unwatched_items[1].id = 2

\* the records of a report are in non-increasing order of size
NonIncreasing(recs) ==
    \A p \in 1..Len(recs) : \A q \in 1..Len(recs) :
        p < q => recs[p].size >= recs[q].size

\* C17: the item list of the JSON report, once written, and the rows of the
\* HTML table, once written, are in non-increasing order of size.
C17_ReportOrder ==
    /\ (pc = "write_html" \/ (pc \in {"finally", "done"} /\ exc = "none"))
          => NonIncreasing(json_report)
    /\ (pc \in {"finally", "done"} /\ exc = "none")
          => NonIncreasing(html_report)

\* both reports were written with two records; the larger item was the
\* second of the inventory
C17_Witness ==
    /\ pc = "done"
    /\ exc = "none"
    /\ Len(json_report) = 2
    /\ json_report[1].id = 2 /\ json_report[1].size = 500
    /\ json_report[2].id = 1 /\ json_report[2].size = 100
    /\ html_report = json_report

\* what the upstream services answered in this run: the size returned for
\* inventory item i, and whether the history query for item i's title was
\* answered with the rows
AnsweredSize(i) == size_tasks[i].result

\* the place of inventory item i in the ranking: larger sizes first, equal
\* sizes in inventory order
Place(i) ==
    1 + Cardinality({k \in 1..Len(library) :
            \/ AnsweredSize(k) > AnsweredSize(i)
            \/ AnsweredSize(k) = AnsweredSize(i) /\ k < i})

AnsweredHistory(i) == watch_tasks[Place(i)].query = "ok"

\* the items that the inputs and the answers alone determine as unwatched
Determined ==
    LET keys == RunKeys
    IN  {i \in 1..Len(library) :
            /\ Place(i) <= limit
            /\ ~(AnsweredHistory(i) /\ Matches(library[i].title, keys))}

\* C18: the unwatched result is a function of the upstream data (inventory,
\* sections, history rows), the limit and the answers to the requests: its
\* members are the items so determined, in the order of their places, each
\* with its id, title, answered size and path.  Two runs that agree on these
\* therefore agree on the result, whatever the interleaving of the tasks and
\* the order in which the index keys are visited.
C18_ResultIsDetermined ==
    Filtered =>
        LET D == Determined
            place == [i \in 1..Len(library) |-> Place(i)]
        IN  /\ Len(unwatched_items) = Cardinality(D)
            /\ \A i \in D :
                  LET p == 1 + Cardinality({k \in D : place[k] < place[i]})
                  IN  unwatched_items[p] =
                          [id |-> library[i].id, title |-> library[i].title,
                           size |-> AnsweredSize(i),
                           path |-> IF library[i].path = NoPath
                                    THEN "Unknown" ELSE library[i].path]

\* an index of two keys, of which one holds "a"; both history queries were
\* answered; A is watched by containment and B is the result
C18_Witness ==
    /\ Filtered
    /\ RunKeys = {<<"a", "a">>, <<"s">>}
    /\ Len(top_items) = 2
    /\ top_items[1].title = <<"A">>
    /\ top_items[2].title = <<"B">>
    /\ \A j \in 1..2 : watch_tasks[j].query = "ok"
    /\ Len(unwatched_items) = 1
    /\ unwatched_items[1].title = <<"B">>

-----------------------------------------------------------------------------
\* Claims about the section selection (SpecSection).

\* the sections of the required type, and those of them with the
\* configured name
OfType == {i \in 1..Len(s_sections) :
             s_sections[i].section_type = section_type(s_mode)}
OfTypeAndName ==
    {i \in OfType :
       s_sections[i].section_name = tautulli_library_name(s_mode)}

\* C11: the section queried is the first of the required type and the
\* configured name; when there is none it is the first of the required type;
\* when there is none of the type nothing is selected; a section of another
\* type is never selected, whatever its name.
C11_SectionSelection ==
    s_pc = "selected" =>
        /\ OfTypeAndName # {} =>
              /\ target_section \in OfTypeAndName
              /\ \A k \in OfTypeAndName : target_section <= k
        /\ (OfTypeAndName = {} /\ OfType # {}) =>
              /\ target_section \in OfType
              /\ \A k \in OfType : target_section <= k
        /\ OfType = {} => target_section = 0
        /\ target_section # 0 =>
              s_sections[target_section].section_type
                 = section_type(s_mode)

\* a section of another type carries the configured name and comes first;
\* the selection falls back to a later section of the required type
C11_Witness ==
    /\ s_pc = "selected"
    /\ target_section > 1
    /\ OfTypeAndName = {}
    /\ \E k \in 1..(target_section - 1) :
          /\ s_sections[k].section_name = tautulli_library_name(s_mode)
          /\ s_sections[k].section_type # section_type(s_mode)

-----------------------------------------------------------------------------
\* Claims about the size format (SpecSize).

\* how often a size of n digits is divided: until it is below 1024, five
\* times at most
Divisions(n) == Min(n - 1, 5)

\* the decimal digit a character stands for
DigitOf(ch) == CHOOSE d \in 0..9 : DigitChar(d) = ch

\* C19: 0 gives "0B"; a positive size gives the value left after dividing
\* by 1024 until it is below 1024 or the unit is PB, with two decimals, a
\* blank and the unit reached: the integer part is the one of that value, or
\* one more when the decimals round up to .00; for the sizes below 1024^2
\* the two decimals are the nearest hundredth of the value.  1536 gives
\* "1.50 KB", 1073741824 gives "1.00 GB", 1024^5 gives "1.00 PB" and 1024^6
\* gives "1024.00 PB".
C19_HumanSize ==
    h_pc = "formatted" =>
        /\ size_bytes = <<>> => size_human = <<"0", "B">>
        /\ size_bytes # <<>> =>
              LET n == Len(size_bytes)
                  i == Divisions(n)
                  W == Value(SubSeq(size_bytes, i + 1, n))
                  unit == << <<"B">>, <<"K", "B">>, <<"M", "B">>,
                             <<"G", "B">>, <<"T", "B">>, <<"P", "B">> >>[i + 1]
                  L == Len(size_human)
                  u == Len(unit)
              IN  /\ W >= 1
                  /\ W < 1024 \/ unit = <<"P", "B">>
                  /\ L >= u + 5
                  /\ SubSeq(size_human, L - u + 1, L) = unit
                  /\ size_human[L - u] = " "
                  /\ size_human[L - u - 3] = "."
                  /\ \A q \in {L - u - 2, L - u - 1} :
                        \E d \in 0..9 : size_human[q] = DigitChar(d)
                  /\ LET c == 10 * DigitOf(size_human[L - u - 2])
                                 + DigitOf(size_human[L - u - 1])
                     IN  \E w \in {W, W + 1} :
                            /\ SubSeq(size_human, 1, L - u - 4)
                                  = DecimalDigits(w)
                            /\ w = W + 1 => c = 0
                            /\ n <= 2 =>
                                  LET v == Value(size_bytes)
                                      p == IF i = 0 THEN 1 ELSE 1024
                                      d == (100 * w + c) * p - 100 * v
                                  IN  2 * d <= p /\ 2 * (0 - d) <= p
        /\ size_bytes = <<512, 1>> =>
              size_human = <<"1", ".", "5", "0", " ", "K", "B">>
        /\ size_bytes = <<0, 0, 0, 1>> =>
              size_human = <<"1", ".", "0", "0", " ", "G", "B">>
        /\ size_bytes = <<0, 0, 0, 0, 0, 1>> =>
              size_human = <<"1", ".", "0", "0", " ", "P", "B">>
        /\ size_bytes = <<0, 0, 0, 0, 0, 0, 1>> =>
              size_human = <<"1", "0", "2", "4", ".", "0", "0", " ", "P", "B">>

\* 1536 was formatted
C19_Witness ==
    /\ h_pc = "formatted"
    /\ size_bytes = <<512, 1>>
    /\ size_human = <<"1", ".", "5", "0", " ", "K", "B">>

-----------------------------------------------------------------------------
\* Claims about the lookback cutoff (SpecCutoff).

\* C20: the cutoff of every history query of a run is the time of the run
\* less 30 * months days, whatever months is, and it is one value for the
\* whole run: no two queries of the run carry different cutoffs.
C20_SingleCutoff ==
    /\ \A j \in 1..Len(cutoff_tasks) :
          cutoff_tasks[j].unix_timestamp
             = cutoff_tasks[j].now - 30 * months * 86400
    /\ \A j \in 1..Len(cutoff_tasks) : \A k \in 1..Len(cutoff_tasks) :
          cutoff_tasks[j].unix_timestamp = cutoff_tasks[k].unix_timestamp

\* the part of C20 that holds: each query's cutoff is 30 * months days
\* before the clock reading of its own coroutine
C20_ThirtyDayBlocks ==
    \A j \in 1..Len(cutoff_tasks) :
        cutoff_tasks[j].unix_timestamp
           = cutoff_tasks[j].now - 30 * months * 86400

-----------------------------------------------------------------------------
\* Claims about the interactive cleanup (SpecCleanup).

\* the positions of the DELETE requests for an item
Deletes(item_id) ==
    {p \in 1..Len(cleanup_events) :
        /\ cleanup_events[p].kind = "delete"
        /\ cleanup_events[p].item_id = item_id}

\* the typed line at position p, as the prompt reads it (lower-cased)
Reply(p) == Lower(cleanup_events[p].line)

\* C21: a DELETE request for an item is issued only right after the operator
\* answered y or yes (in any case of the letters) at the prompt of that same
\* item, and at most once per item; after n or no there is no DELETE request
\* for that item; after any other line the same item is asked again and
\* nothing is deleted; without --tui nothing is asked and nothing deleted.
C21_DeleteOnlyAfterConfirmation ==
    /\ ~tui => cleanup_events = <<>>
    /\ \A p \in 1..Len(cleanup_events) :
          LET e == cleanup_events[p]
          IN  /\ \E k \in 1..Len(unwatched_items) :
                    unwatched_items[k].id = e.item_id
              /\ e.kind = "delete" =>
                    /\ p > 1
                    /\ cleanup_events[p - 1].kind = "answer"
                    /\ cleanup_events[p - 1].item_id = e.item_id
                    /\ Reply(p - 1) \in {<<"y">>, <<"y", "e", "s">>}
                    /\ Deletes(e.item_id) = {p}
              /\ (e.kind = "answer"
                    /\ Reply(p) \in {<<"n">>, <<"n", "o">>}) =>
                    Deletes(e.item_id) = {}
              /\ (e.kind = "answer"
                    /\ Reply(p) \notin {<<"y">>, <<"y", "e", "s">>,
                                        <<"n">>, <<"n", "o">>}) =>
                    IF p < Len(cleanup_events)
                    THEN /\ cleanup_events[p + 1].kind = "answer"
                         /\ cleanup_events[p + 1].item_id = e.item_id
                    ELSE \/ /\ pc = "prompt"
                            /\ unwatched_items[idx].id = e.item_id
                         \/ pc \in {"finally", "done"} /\ exc # "none"

\* the operator typed something else, then n for one item, then YES for
\* another one, whose DELETE request went out
C21_Witness ==
    /\ tui
    /\ Len(cleanup_events) = 4
    /\ cleanup_events[1].kind = "answer" /\ cleanup_events[1].line = <<>>
    /\ cleanup_events[2].kind = "answer" /\ cleanup_events[2].line = <<"N", "o">>
    /\ cleanup_events[3].kind = "answer"
    /\ cleanup_events[3].line = <<"Y", "E", "S">>
    /\ cleanup_events[4].kind = "delete"
    /\ cleanup_events[4].item_id # cleanup_events[2].item_id
    /\ deleted_count = 1

-----------------------------------------------------------------------------
\* Claims about the HTTP session (Spec).

\* how many requests the run has issued so far
RequestsIssued ==
    requests.inventory + requests.size + requests.sections + requests.history

\* C22: from the start of a run to its close at most one session is ever
\* created, however the size coroutines and the watch coroutines interleave,
\* and every request of the run went out on that one session.
C22_OneSession ==
    /\ sessions_created <= 1
    /\ sessions_closed <= sessions_created
    /\ request_sessions \subseteq {1}
    /\ RequestsIssued > 0 => sessions_created = 1 /\ request_sessions = {1}
    /\ session = "open" => sessions_created = 1 /\ sessions_closed = 0

\* two size coroutines and two watch coroutines have each called
\* setup_session and sent their requests, the watch coroutines twice
C22_Witness ==
    /\ pc = "watch_fanout"
    /\ requests = [inventory |-> 1, size |-> 2, sections |-> 2, history |-> 2]
    /\ \A j \in 1..Len(watch_tasks) : watch_tasks[j].pc = "history"
    /\ session = "open"
    /\ sessions_created = 1
    /\ request_sessions = {1}

-----------------------------------------------------------------------------
\* Claims about the special case of the matcher (SpecMatch).

\* the partial-match loop with the two containment tests only
RECURSIVE ContainmentOnly(_, _, _)
ContainmentOnly(title, order, i) ==
    IF i > Len(order) THEN FALSE
    ELSE \/ IsSubstring(Lower(title), order[i])
         \/ IsSubstring(order[i], Lower(title))
         \/ ContainmentOnly(title, order, i + 1)

\* a matcher that has the exact test and the containment tests only
WithoutSpecialCase(title, watched, order) ==
    Lower(title) \in watched \/ ContainmentOnly(title, order, 1)

\* C23: for every candidate title, every index and every order in which the
\* index is visited, the matcher returns what a matcher without the
\* "Supernatural" branch returns.
C23_SpecialCaseIsRedundant ==
    m_pc = "matched" =>
        (m_step # "none")
           = WithoutSpecialCase(item_title, watched_items, m_order)

\* the candidate is "Supernatural" and a watched title holds "supernatural"
\* without being equal to it: both conditions of the special case hold, and
\* the answer came from the containment test
C23_Witness ==
    /\ m_pc = "matched"
    /\ item_title = Supernatural
    /\ Lower(TheSupernaturalist) \in watched_items
    /\ supernatural \notin watched_items
    /\ Cardinality(watched_items) = 2
    /\ m_step # "none"
    /\ WithoutSpecialCase(item_title, watched_items, m_order)

-----------------------------------------------------------------------------
\* Claims about the empty candidate title (SpecMatch).

\* the history has a row whose subject title is there and is not empty
HasNamedRow ==
    \E i \in 1..Len(m_events) : Truthy(ItemName(m_mode, m_events[i]))

\* C24, as stated: a candidate whose title is the empty string is watched
\* exactly when the index has a key, and so it is watched (and left out of
\* the unwatched list) for every history that is not empty.
C24_EmptyTitleAnyHistory ==
    (m_pc = "matched" /\ item_title = <<>>) =>
        /\ (m_step # "none") = (watched_items # {})
        /\ m_events # <<>> => m_step # "none"

\* C24, amended: a candidate whose title is the empty string is watched
\* exactly when the index has a key, by the first containment test on the
\* first key visited; the index has a key exactly when some row of the
\* history has a subject title that is not empty, so a history of rows
\* without subject title leaves the candidate unwatched.
C24_EmptyTitleNamedHistory ==
    (m_pc = "matched" /\ item_title = <<>>) =>
        /\ (m_step # "none") = (watched_items # {})
        /\ m_step \in {"none", "title_in_watched"}
        /\ (watched_items # {}) = HasNamedRow
        /\ <<>> \notin watched_items

\* the empty title was decided against an index with a key
C24_Witness ==
    /\ m_pc = "matched"
    /\ item_title = <<>>
    /\ Len(m_events) = 2
    /\ Cardinality(watched_items) = 1
    /\ ~Truthy(ItemName(m_mode, m_events[1]))
    /\ m_step = "title_in_watched"

====
